---- MODULE Spec2Model ----
(***************************************************************************)
(* Model of src/pages/api/processSegment.js: the API route handler that    *)
(* splits an uploaded video, transcribes every segment through the         *)
(* external transcription service and renders it with the media engine.    *)
(*                                                                         *)
(* One step of the model is the code a request runs between two awaits:    *)
(* the form.parse callback up to the await of splitVideo, then the code    *)
(* from one resolved (or rejected) promise to the next await, the catch    *)
(* block included.                                                         *)
(***************************************************************************)
EXTENDS Integers, Sequences, FiniteSets, TLC

\* ------------------------------------------------------------------ bounds
MaxSegs == 2      \* most segment files one split produces
MaxPolls == 1     \* most polls the service answers with a non-final status
MaxClock == 2     \* values Date.now() takes
MaxLen == 3       \* longest caption handed to the filter graph builder

\* ------------------------------------------------------- program constants
PollIntervalMs == 5000   \* setTimeout(res, 5000)

Reqs == {"r1", "r2"}            \* requests one process may handle
Clock == 1..MaxClock
Texts == {"hi", "it's"}         \* pollingResponse.data.text
Urls == {"u1", "u2"}            \* uploadResponse.data.upload_url
Ids == {"j1", "j2"}             \* transcriptResponse.data.id
SvcErrors == {"bad audio"}      \* pollingResponse.data.error

\* the characters of a caption: a plain one and the ones the engine's syntax uses
Alphabet == {"a", "'", "\\", ":"}
Captions == UNION {[1..n -> Alphabet] : n \in 0..MaxLen}

\* pollingResponse.data: the statuses of the service and one it does not document
PollResponses ==
  {[status |-> "completed", text |-> t, error |-> ""] : t \in Texts}
    \cup {[status |-> "error", text |-> "", error |-> e] : e \in SvcErrors}
    \cup {[status |-> s, text |-> "", error |-> ""] : s \in {"queued", "processing", "unknown"}}
NoPoll == [status |-> "", text |-> "", error |-> ""]

NoResp == [status |-> 0, body |-> <<>>]
NoCall == [op |-> "none", arg |-> <<>>]
NoDir == <<>>
NoReq == [method |-> "", err |-> FALSE, hasVideo |-> FALSE]
NoGraph == [builder |-> "", nodes |-> <<>>, output |-> ""]

VARIABLES
  apiKey,            \* process.env.ASSEMBLYAI_API_KEY is set
  req,               \* what each request carried: method, parse error, video part
  pc,                \* where each request's handler is suspended
  uploads,           \* uploaded files on disk (one per request, named by it)
  dirs,              \* scratch directories on disk
  files,             \* <<directory, filename>> of the files on disk
  inputPath,         \* handler: inputPath ("" when unset)
  segmentsDir,       \* handler: segmentsDir (NoDir when unset)
  segmentFiles,      \* handler: segmentFiles
  idx,               \* position of the for-of loop in segmentFiles
  processedSegments, \* handler: processedSegments
  transcript,        \* handler: transcript of the current segment
  audioUrl,          \* getTranscript: audioUrl
  transcriptId,      \* getTranscript: transcriptId
  pollingResponse,   \* getTranscript: data of the last pollingResponse
  polls,             \* poll responses received in this getTranscript call
  call,              \* the awaited external operation and its argument
  svcLog,            \* getTranscript: the requests and sleeps of this call, in order
  resLog,            \* every res.status(..).json(..) the handler invoked
  wire,              \* the response the client received
  failures,          \* the failures that occurred, in order
  splitCalls,        \* invocations of splitVideo
  listCalls,         \* invocations of readdirSync
  started,           \* segment files whose upload request was issued
  renders,           \* <<file, caption>> of the renders started
  caption,           \* processSegmentWithFFmpeg: transcript, as characters
  filterGraph        \* processSegmentWithFFmpeg: what complexFilter(..) is given

pipelineVars == <<apiKey, req, pc, uploads, dirs, files, inputPath, segmentsDir, segmentFiles,
          idx, processedSegments, transcript, audioUrl, transcriptId, pollingResponse,
          polls, call, svcLog,
          resLog, wire, failures, splitCalls, listCalls, started, renders>>

vars == <<pipelineVars, caption, filterGraph>>

\* ------------------------------------------------------------- file names
DigitChar == <<"0", "1", "2", "3", "4", "5", "6", "7", "8", "9">>

\* '%03d' of the segment muxer
Pad3(i) == <<DigitChar[((i \div 100) % 10) + 1], DigitChar[((i \div 10) % 10) + 1],
             DigitChar[(i % 10) + 1]>>

\* 'segment_%03d.mp4'
RawName(i) == <<"segment_">> \o Pad3(i) \o <<".mp4">>

\* path.join('/tmp', `segments_${Date.now()}`)
DirName(t) == <<"segments_", t>>

\* `processed_${file}`
ProcessedName(f) == <<"processed_">> \o f

\* f.endsWith('.mp4')
EndsWithMp4(f) == Len(f) > 0 /\ f[Len(f)] = ".mp4"

IsProcessed(f) == Len(f) > 0 /\ f[1] = "processed_"

\* the sequence index the Splitter gave the raw segment behind a file name
SeqIndex(f) ==
  LET g == IF IsProcessed(f) THEN SubSeq(f, Len(f) - 4, Len(f)) ELSE f
  IN CHOOSE i \in 0..MaxSegs : RawName(i) = g

DirFiles(fs, d) == {p[2] : p \in {q \in fs : q[1] = d}}

\* the orders in which readdirSync may return the entries of a directory
ReadDir(fs, d) ==
  LET S == DirFiles(fs, d)
      n == Cardinality(S)
  IN {s \in [1..n -> S] : \A i, j \in 1..n : i # j => s[i] # s[j]}

\* .filter(f => f.endsWith('.mp4'))
Filter(s) == SelectSeq(s, EndsWithMp4)

\* ------------------------------------------------------------- messages
MissingKeyMsg == <<"Missing AssemblyAI API key in ASSEMBLYAI_API_KEY environment variable.">>
JobErrorMsg(e) == <<"Transcript API error: ", e>>
HttpErrorMsg == <<"Request failed with status code 500">>
EngineErrorMsg == <<"ffmpeg exited with code 1">>
FsErrorMsg == <<"EIO: i/o error">>

Ok(list) == [status |-> 200, body |-> [processedSegments |-> list]]
Err(code, msg) == [status |-> code, body |-> [error |-> msg]]
Failure(stage, file) == [stage |-> stage, file |-> file]

\* ------------------------------------------------------------------ Init
\* the process before the requests in `arriving` are handled
PipelineInit(arriving) ==
  /\ apiKey \in BOOLEAN
  /\ req = [r \in Reqs |-> NoReq]
  /\ pc = [r \in Reqs |-> IF r \in arriving THEN "idle" ELSE "absent"]
  /\ uploads = {}
  /\ dirs = {}
  /\ files = {}
  /\ inputPath = [r \in Reqs |-> ""]
  /\ segmentsDir = [r \in Reqs |-> NoDir]
  /\ segmentFiles = [r \in Reqs |-> <<>>]
  /\ idx = [r \in Reqs |-> 0]
  /\ processedSegments = [r \in Reqs |-> <<>>]
  /\ transcript = [r \in Reqs |-> ""]
  /\ audioUrl = [r \in Reqs |-> ""]
  /\ transcriptId = [r \in Reqs |-> ""]
  /\ pollingResponse = [r \in Reqs |-> NoPoll]
  /\ polls = [r \in Reqs |-> 0]
  /\ call = [r \in Reqs |-> NoCall]
  /\ svcLog = [r \in Reqs |-> <<>>]
  /\ resLog = [r \in Reqs |-> <<>>]
  /\ wire = [r \in Reqs |-> NoResp]
  /\ failures = [r \in Reqs |-> <<>>]
  /\ splitCalls = [r \in Reqs |-> 0]
  /\ listCalls = [r \in Reqs |-> 0]
  /\ started = [r \in Reqs |-> <<>>]
  /\ renders = [r \in Reqs |-> <<>>]

\* one request
Init ==
  /\ PipelineInit({"r1"})
  /\ caption = <<>>
  /\ filterGraph = NoGraph

\* ------------------------------------------------------- response helpers
\* res.status(code).json(body), first response of the request
Send(r, resp) ==
  /\ resLog' = [resLog EXCEPT ![r] = Append(@, resp)]
  /\ wire' = [wire EXCEPT ![r] = IF @ = NoResp THEN resp ELSE @]

\* catch (error) { res.status(500).json({ error: error.message }) } when no
\* response was sent before; fl is the request's failures, this one included
Catch(r, fl, msg) ==
  /\ Send(r, Err(500, msg))
  /\ failures' = [failures EXCEPT ![r] = fl]
  /\ pc' = [pc EXCEPT ![r] = "done"]

\* the end of the try block: res.status(200).json({ processedSegments }), then
\* fs.unlinkSync(inputPath). When unlinkSync throws, the catch block runs after
\* the response was sent: its res.status(500).json(..) is a second response of
\* the handler, which the runtime refuses (the headers are sent) by throwing
\* out of the catch block, so the callback's promise rejects unhandled.
Complete(r, procd, fl, unlinkOk) ==
  IF unlinkOk /\ inputPath[r] \in uploads THEN
    /\ Send(r, Ok(procd))
    /\ uploads' = uploads \ {inputPath[r]}
    /\ failures' = [failures EXCEPT ![r] = fl]
    /\ pc' = [pc EXCEPT ![r] = "done"]
  ELSE
    /\ resLog' = [resLog EXCEPT ![r] = Append(Append(@, Ok(procd)), Err(500, FsErrorMsg))]
    /\ wire' = [wire EXCEPT ![r] = IF @ = NoResp THEN Ok(procd) ELSE @]
    /\ uploads' = uploads
    /\ failures' = [failures EXCEPT ![r] =
                      fl \o <<Failure("unlink", <<>>), Failure("respond", <<>>)>>]
    /\ pc' = [pc EXCEPT ![r] = "crashed"]

\* the head of the for-of loop at position i of segs, up to the next await:
\* past the end, the end of the try block; otherwise getTranscript(segPath) up
\* to `await axios(..)` of the upload
BeginSegment(r, segs, i, procd, fl) ==
  /\ idx' = [idx EXCEPT ![r] = i]
  /\ audioUrl' = [audioUrl EXCEPT ![r] = ""]
  /\ transcriptId' = [transcriptId EXCEPT ![r] = ""]
  /\ pollingResponse' = [pollingResponse EXCEPT ![r] = NoPoll]
  /\ polls' = [polls EXCEPT ![r] = 0]
  /\ IF i > Len(segs) THEN
       /\ \E unlinkOk \in BOOLEAN : Complete(r, procd, fl, unlinkOk)
       /\ call' = [call EXCEPT ![r] = NoCall]
       /\ svcLog' = [svcLog EXCEPT ![r] = <<>>]
       /\ started' = started
     ELSE IF ~apiKey THEN
       /\ Catch(r, Append(fl, Failure("config", segs[i])), MissingKeyMsg)
       /\ call' = [call EXCEPT ![r] = NoCall]
       /\ svcLog' = [svcLog EXCEPT ![r] = <<>>]
       /\ UNCHANGED <<uploads, started>>
     ELSE
       /\ call' = [call EXCEPT ![r] = [op |-> "upload", arg |-> <<segmentsDir[r], segs[i]>>]]
       /\ svcLog' = [svcLog EXCEPT ![r] = <<[op |-> "upload", arg |-> <<segmentsDir[r], segs[i]>>]>>]
       /\ started' = [started EXCEPT ![r] = Append(@, segs[i])]
       /\ failures' = [failures EXCEPT ![r] = fl]
       /\ pc' = [pc EXCEPT ![r] = "uploading"]
       /\ UNCHANGED <<resLog, wire, uploads>>

\* the check of the upload with `!files.video` left out
ValidatedErrOnly(err, hasVideo) == ~err

\* the condition of the early return of the form.parse callback, negated
Validated(err, hasVideo) == ~err /\ hasVideo

\* splitVideo's promise with the 'error' event resolving it too
SplitAlwaysResolves(ok) == TRUE

\* splitVideo's promise: 'end' resolves it, 'error' rejects it
SplitResolves(ok) == ok

\* the branches with a whitelist of the statuses that keep polling: a status
\* the code does not know throws
PollBranchKnownOnly(status) ==
  IF status = "completed" THEN "return"
  ELSE IF status \in {"queued", "processing"} THEN "loop"
  ELSE "throw"

\* the branch getTranscript takes on pollingResponse.data.status
PollBranch(status) ==
  IF status = "completed" THEN "return"
  ELSE IF status = "error" THEN "throw"
  ELSE "loop"

\* the transcript taken from a field the completed response does not carry
TranscriptOfError(resp) == resp.error

\* transcriptText = pollingResponse.data.text
TranscriptOf(resp) == resp.text

\* processSegmentWithFFmpeg's promise with the 'error' event resolving it too
RenderAlwaysResolves(ok) == TRUE

\* processSegmentWithFFmpeg's promise: 'end' resolves it, 'error' rejects it
RenderResolves(ok) == ok

\* the loop reading the directory again as it goes: the processed outputs
\* written so far come after the raw segments
LoopFilesRelisted(r) == segmentFiles[r] \o processedSegments[r]

\* the array the for-of loop iterates: the listing taken before the loop
LoopFiles(r) == segmentFiles[r]

\* the sleep of the polling loop with a timer that fires at once
SleepNone == [op |-> "sleep", arg |-> 0]

\* await new Promise((res) => setTimeout(res, 5000))
Sleep == [op |-> "sleep", arg |-> PollIntervalMs]

\* ---------------------------------------------------------------- Receive
\* handler up to its first await: the method check, form.parse, its callback
\* up to `await splitVideo(inputPath, segmentsDir)`
Receive(r) ==
  /\ pc[r] = "idle"
  /\ \E method \in {"POST", "GET"}, err \in BOOLEAN, hasVideo \in BOOLEAN,
        t \in Clock, mkdirOk \in BOOLEAN :
       /\ req' = [req EXCEPT ![r] = [method |-> method, err |-> err, hasVideo |-> hasVideo]]
       /\ IF method # "POST" THEN
            /\ Send(r, Err(405, <<"Method Not Allowed">>))
            /\ pc' = [pc EXCEPT ![r] = "done"]
            /\ UNCHANGED <<uploads, dirs, inputPath, segmentsDir, call, failures, splitCalls>>
          ELSE IF ~Validated(err, hasVideo) THEN
            /\ Send(r, Err(400, <<"Failed to parse upload or no video provided.">>))
            /\ pc' = [pc EXCEPT ![r] = "done"]
            /\ uploads' = IF hasVideo THEN uploads \cup {r} ELSE uploads
            /\ failures' = [failures EXCEPT ![r] = Append(@, Failure("input", <<>>))]
            /\ UNCHANGED <<dirs, inputPath, segmentsDir, call, splitCalls>>
          ELSE
            /\ uploads' = IF hasVideo THEN uploads \cup {r} ELSE uploads
            /\ inputPath' = [inputPath EXCEPT ![r] = r]
            /\ segmentsDir' = [segmentsDir EXCEPT ![r] = DirName(t)]
            /\ IF mkdirOk /\ DirName(t) \notin dirs THEN
                 \* fs.mkdirSync succeeded; splitVideo starts the engine
                 /\ dirs' = dirs \cup {DirName(t)}
                 /\ splitCalls' = [splitCalls EXCEPT ![r] = @ + 1]
                 /\ call' = [call EXCEPT ![r] = [op |-> "split", arg |-> <<r, DirName(t)>>]]
                 /\ pc' = [pc EXCEPT ![r] = "splitting"]
                 /\ UNCHANGED <<resLog, wire, failures>>
               ELSE
                 \* fs.mkdirSync threw outside the try block: the async callback's
                 \* promise rejects and nothing handles the rejection
                 /\ failures' = [failures EXCEPT ![r] = Append(@, Failure("mkdir", <<>>))]
                 /\ pc' = [pc EXCEPT ![r] = "crashed"]
                 /\ UNCHANGED <<dirs, splitCalls, call, resLog, wire>>
  /\ UNCHANGED <<caption, filterGraph, apiKey, files, segmentFiles, idx, processedSegments, transcript,
                 audioUrl, transcriptId, pollingResponse, polls, svcLog, listCalls,
                 started, renders>>

\* -------------------------------------------------------------- SplitDone
\* the engine ends the split ('end' or 'error'); on success the handler lists
\* the directory, filters the listing and enters the loop
SplitDone(r) ==
  /\ pc[r] = "splitting"
  /\ \E ok \in BOOLEAN, n \in 1..MaxSegs, listOk \in BOOLEAN :
       LET d == segmentsDir[r]
           written == IF ok THEN {<<d, RawName(i)>> : i \in 0..(n - 1)} ELSE {}
           fl == IF ok THEN failures[r] ELSE Append(failures[r], Failure("split", <<>>))
       IN /\ files' = files \cup written
          /\ IF ~SplitResolves(ok) THEN
               /\ Catch(r, fl, EngineErrorMsg)
               /\ call' = [call EXCEPT ![r] = NoCall]
               /\ UNCHANGED <<uploads, segmentFiles, idx, processedSegments, audioUrl,
                              transcriptId, pollingResponse, polls, svcLog, listCalls,
                              started>>
             ELSE
               /\ listCalls' = [listCalls EXCEPT ![r] = @ + 1]
               /\ IF ~listOk THEN
                    /\ Catch(r, Append(fl, Failure("list", <<>>)), FsErrorMsg)
                    /\ call' = [call EXCEPT ![r] = NoCall]
                    /\ UNCHANGED <<uploads, segmentFiles, idx, processedSegments, audioUrl,
                                   transcriptId, pollingResponse, polls, svcLog, started>>
                  ELSE
                    \E listing \in ReadDir(files \cup written, d) :
                      /\ segmentFiles' = [segmentFiles EXCEPT ![r] = Filter(listing)]
                      /\ processedSegments' = [processedSegments EXCEPT ![r] = <<>>]
                      /\ BeginSegment(r, Filter(listing), 1, <<>>, fl)
  /\ UNCHANGED <<caption, filterGraph, apiKey, req, dirs, inputPath, segmentsDir, transcript, splitCalls, renders>>

\* ------------------------------------------------------------- UploadDone
\* the upload request returns or fails; on success job creation is requested
UploadDone(r) ==
  /\ pc[r] = "uploading"
  /\ \E ok \in BOOLEAN, u \in Urls :
       IF ok THEN
         /\ audioUrl' = [audioUrl EXCEPT ![r] = u]
         /\ call' = [call EXCEPT ![r] = [op |-> "create", arg |-> u]]
         /\ svcLog' = [svcLog EXCEPT ![r] = Append(@, [op |-> "create", arg |-> u])]
         /\ pc' = [pc EXCEPT ![r] = "creating"]
         /\ UNCHANGED <<resLog, wire, failures>>
       ELSE
         /\ Catch(r, Append(failures[r], Failure("upload", LoopFiles(r)[idx[r]])),
                  HttpErrorMsg)
         /\ call' = [call EXCEPT ![r] = NoCall]
         /\ UNCHANGED <<audioUrl, svcLog>>
  /\ UNCHANGED <<caption, filterGraph, apiKey, req, uploads, dirs, files, inputPath, segmentsDir, segmentFiles, idx,
                 processedSegments, transcript, transcriptId, pollingResponse, polls,
                 splitCalls, listCalls, started, renders>>

\* ------------------------------------------------------------- CreateDone
\* the job creation request returns or fails; on success the polling loop is
\* entered and its first sleep starts
CreateDone(r) ==
  /\ pc[r] = "creating"
  /\ \E ok \in BOOLEAN, j \in Ids :
       IF ok THEN
         /\ transcriptId' = [transcriptId EXCEPT ![r] = j]
         /\ call' = [call EXCEPT ![r] = Sleep]
         /\ svcLog' = [svcLog EXCEPT ![r] = Append(@, Sleep)]
         /\ pc' = [pc EXCEPT ![r] = "sleeping"]
         /\ UNCHANGED <<resLog, wire, failures>>
       ELSE
         /\ Catch(r, Append(failures[r], Failure("create", LoopFiles(r)[idx[r]])),
                  HttpErrorMsg)
         /\ call' = [call EXCEPT ![r] = NoCall]
         /\ UNCHANGED <<transcriptId, svcLog>>
  /\ UNCHANGED <<caption, filterGraph, apiKey, req, uploads, dirs, files, inputPath, segmentsDir, segmentFiles, idx,
                 processedSegments, transcript, audioUrl, pollingResponse, polls,
                 splitCalls, listCalls, started, renders>>

\* -------------------------------------------------------------- SleepDone
\* the timer of the polling loop fires; the status request is issued
SleepDone(r) ==
  /\ pc[r] = "sleeping"
  /\ call' = [call EXCEPT ![r] = [op |-> "poll", arg |-> transcriptId[r]]]
  /\ svcLog' = [svcLog EXCEPT ![r] = Append(@, [op |-> "poll", arg |-> transcriptId[r]])]
  /\ pc' = [pc EXCEPT ![r] = "polling"]
  /\ UNCHANGED <<caption, filterGraph, apiKey, req, uploads, dirs, files, inputPath, segmentsDir, segmentFiles, idx,
                 processedSegments, transcript, audioUrl, transcriptId, pollingResponse,
                 polls, resLog, wire, failures, splitCalls, listCalls, started, renders>>

\* ------------------------------------------------- the body of the loop
\* the loop body with the render not awaited: the name is pushed and the loop
\* goes on to the next segment while the engine still renders this one
AfterTranscriptNoAwait(r, file, text) ==
  LET procd == Append(processedSegments[r], ProcessedName(file))
      i == idx[r] + 1
  IN /\ transcript' = [transcript EXCEPT ![r] = text]
     /\ renders' = [renders EXCEPT ![r] = Append(@, <<file, text>>)]
     /\ processedSegments' = [processedSegments EXCEPT ![r] = procd]
     /\ idx' = [idx EXCEPT ![r] = i]
     /\ UNCHANGED <<audioUrl, transcriptId>>
     /\ svcLog' = [svcLog EXCEPT ![r] = <<>>]
     /\ IF i > Len(segmentFiles[r]) THEN
          /\ \E unlinkOk \in BOOLEAN : Complete(r, procd, failures[r], unlinkOk)
          /\ call' = [call EXCEPT ![r] = NoCall]
          /\ started' = started
        ELSE
          /\ call' = [call EXCEPT ![r] =
                        [op |-> "upload", arg |-> <<segmentsDir[r], segmentFiles[r][i]>>]]
          /\ started' = [started EXCEPT ![r] = Append(@, segmentFiles[r][i])]
          /\ pc' = [pc EXCEPT ![r] = "uploading"]
          /\ UNCHANGED <<resLog, wire, failures, uploads>>

\* the loop body from the return of getTranscript to the await of the render:
\* const transcript = ..; outputSegment = ..; await processSegmentWithFFmpeg(..)
AfterTranscript(r, file, text) ==
  /\ transcript' = [transcript EXCEPT ![r] = text]
  /\ renders' = [renders EXCEPT ![r] = Append(@, <<file, text>>)]
  /\ call' = [call EXCEPT ![r] =
                [op |-> "render",
                 arg |-> <<segmentsDir[r], file, ProcessedName(file), text>>]]
  /\ pc' = [pc EXCEPT ![r] = "rendering"]
  /\ UNCHANGED <<resLog, wire, failures, uploads, processedSegments, idx, started,
                 audioUrl, transcriptId, svcLog>>

\* --------------------------------------------------------------- PollDone
\* the status request returns or fails; on `completed` getTranscript returns
\* and the handler starts the render of the segment
PollDone(r) ==
  /\ pc[r] = "polling"
  /\ \E ok \in BOOLEAN, resp \in PollResponses :
       LET file == LoopFiles(r)[idx[r]]
           branch == PollBranch(resp.status)
       IN \* the service ends every job: at most MaxPolls non-final answers
          /\ ok => (polls[r] < MaxPolls \/ resp.status \in {"completed", "error"})
          /\ IF ~ok THEN
               /\ Catch(r, Append(failures[r], Failure("poll", file)), HttpErrorMsg)
               /\ call' = [call EXCEPT ![r] = NoCall]
               /\ UNCHANGED <<pollingResponse, polls, transcript, renders, uploads,
                              processedSegments, idx, started, audioUrl, transcriptId,
                              svcLog>>
             ELSE
               /\ pollingResponse' = [pollingResponse EXCEPT ![r] = resp]
               /\ polls' = [polls EXCEPT ![r] = @ + 1]
               /\ IF branch = "return" THEN
                    AfterTranscript(r, file, TranscriptOf(resp))
                  ELSE IF branch = "throw" THEN
                    /\ Catch(r, Append(failures[r], Failure("job", file)),
                             JobErrorMsg(resp.error))
                    /\ call' = [call EXCEPT ![r] = NoCall]
                    /\ UNCHANGED <<transcript, renders, uploads, processedSegments, idx,
                                   started, audioUrl, transcriptId, svcLog>>
                  ELSE
                    /\ call' = [call EXCEPT ![r] = Sleep]
                    /\ svcLog' = [svcLog EXCEPT ![r] = Append(@, Sleep)]
                    /\ pc' = [pc EXCEPT ![r] = "sleeping"]
                    /\ UNCHANGED <<resLog, wire, failures, transcript, renders, uploads,
                                   processedSegments, idx, started, audioUrl, transcriptId>>
  /\ UNCHANGED <<caption, filterGraph, apiKey, req, dirs, files, inputPath, segmentsDir, segmentFiles,
                 splitCalls, listCalls>>

\* ------------------------------------------------------------- RenderDone
\* the engine ends the render ('end' or 'error'); on success the output file
\* exists, its name is pushed and the loop goes to the next segment
RenderDone(r) ==
  /\ pc[r] = "rendering"
  /\ \E ok \in BOOLEAN :
       LET file == LoopFiles(r)[idx[r]]
           out == ProcessedName(file)
           fl == IF ok THEN failures[r] ELSE Append(failures[r], Failure("render", file))
       IN /\ files' = IF ok THEN files \cup {<<segmentsDir[r], out>>} ELSE files
          /\ IF RenderResolves(ok) THEN
               /\ processedSegments' = [processedSegments EXCEPT ![r] = Append(@, out)]
               /\ BeginSegment(r, LoopFiles(r), idx[r] + 1,
                               Append(processedSegments[r], out), fl)
             ELSE
               /\ Catch(r, fl, EngineErrorMsg)
               /\ call' = [call EXCEPT ![r] = NoCall]
               /\ UNCHANGED <<processedSegments, uploads, idx, audioUrl, transcriptId,
                              pollingResponse, polls, svcLog, started>>
  /\ UNCHANGED <<caption, filterGraph, apiKey, req, dirs, inputPath, segmentsDir, segmentFiles, transcript,
                 splitCalls, listCalls, renders>>

\* ------------------------------------------------------------------- Next
Next ==
  \E r \in Reqs :
    \/ Receive(r)
    \/ SplitDone(r)
    \/ UploadDone(r)
    \/ CreateDone(r)
    \/ SleepDone(r)
    \/ PollDone(r)
    \/ RenderDone(r)

Spec == Init /\ [][Next]_vars

\* ------------------------------------------------- the filter graph builder
FontPath == "fonts/Roboto-Regular.ttf"

\* transcript.replace(/'/g, "\\'")
RECURSIVE EscapeQuotes(_)
EscapeQuotes(t) ==
  IF t = <<>> THEN <<>>
  ELSE (IF Head(t) = "'" THEN <<"\\", "'">> ELSE <<Head(t)>>) \o EscapeQuotes(Tail(t))

\* the text of the drawtext chain of the template before and after the caption
DrawtextPre == <<"fontfile=", "'", FontPath, "'", ":", "text=", "'">>
DrawtextPost == <<"'", ":", "fontsize=48", ":", "fontcolor=white", ":", "x=(w-text_w)/2",
                  ":", "y=50">>

\* the output the renders ask the engine for, with the stream before the overlay
OutputNameMainText == "main_text"

\* complexFilter(.., 'final')
OutputName == "final"

\* the template string of the first processSegmentWithFFmpeg, chain by chain
TemplateGraph(text) ==
  LET safeTranscript == EscapeQuotes(text)
  IN << [inputs |-> <<"0:v">>, filter |-> "scale", options |-> <<"1080:1920">>,
         outputs |-> "main_scaled"],
        [inputs |-> <<"main_scaled">>, filter |-> "drawtext",
         options |-> DrawtextPre \o safeTranscript \o DrawtextPost,
         outputs |-> "main_text"],
        [inputs |-> <<"1:v">>, filter |-> "scale", options |-> <<"trunc(iw*300/ih):300">>,
         outputs |-> "ss_scaled"],
        [inputs |-> <<"main_text", "ss_scaled">>, filter |-> "overlay",
         options |-> <<"0:main_text_h-overlay_h-20">>, outputs |-> "final"] >>

\* the array of filter objects of the second processSegmentWithFFmpeg
DeclaredGraph(text) ==
  << [filter |-> "scale", options |-> <<"1080:1920">>, inputs |-> <<"[0:v]">>,
      outputs |-> "main_scaled"],
     [filter |-> "drawtext",
      options |-> << <<"fontfile", <<FontPath>> >>, <<"text", text>>,
                     <<"fontsize", <<"48">> >>, <<"fontcolor", <<"white">> >>,
                     <<"x", <<"(w-text_w)/2">> >>, <<"y", <<"50">> >> >>,
      inputs |-> <<"main_scaled">>, outputs |-> "main_text"],
     [filter |-> "scale", options |-> <<"trunc(iw*300/ih):300">>, inputs |-> <<"[1:v]">>,
      outputs |-> "ss_scaled"],
     [filter |-> "overlay",
      options |-> << <<"x", <<"0">> >>, <<"y", <<"main_text_h - overlay_h - 20">> >> >>,
      inputs |-> <<"main_text", "ss_scaled">>, outputs |-> "final"] >>

\* processSegmentWithFFmpeg (template string) up to .complexFilter(filterGraph, 'final')
BuildTemplate ==
  /\ filterGraph = NoGraph
  /\ filterGraph' = [builder |-> "template", nodes |-> TemplateGraph(caption),
                     output |-> OutputName]
  /\ UNCHANGED <<caption, pipelineVars>>

\* processSegmentWithFFmpeg (filter objects) up to .complexFilter([..], 'final')
BuildDeclared ==
  /\ filterGraph = NoGraph
  /\ filterGraph' = [builder |-> "declared", nodes |-> DeclaredGraph(caption),
                     output |-> OutputName]
  /\ UNCHANGED <<caption, pipelineVars>>

\* the builder alone, on every caption of at most MaxLen characters
InitGraph ==
  /\ PipelineInit({})
  /\ caption \in Captions
  /\ filterGraph = NoGraph

NextGraph == BuildTemplate \/ BuildDeclared

SpecGraph == InitGraph /\ [][NextGraph]_vars

\* two requests in the same process, their steps interleaved at the awaits
InitConc ==
  /\ PipelineInit(Reqs)
  /\ caption = <<>>
  /\ filterGraph = NoGraph

SpecConc == InitConc /\ [][Next]_vars

\* ================================================================ claims
Range(s) == {s[i] : i \in DOMAIN s}
Terminal == {"done", "crashed"}
Stages(r) == {failures[r][i].stage : i \in DOMAIN failures[r]}
TranscribeStages == {"config", "upload", "create", "poll", "job"}
PipelineStages == {"mkdir", "split", "list", "render", "unlink"} \cup TranscribeStages

\* the message names the file: its tokens occur in it, in order
Mentions(msg, f) ==
  \E i \in 1..Len(msg) : i + Len(f) - 1 <= Len(msg) /\ SubSeq(msg, i, i + Len(f) - 1) = f

\* the processed output of raw segment f of request r is on disk
OutputOnDisk(r, f) == <<segmentsDir[r], ProcessedName(f)>> \in files

IsError(resp) == resp.status \in {400, 405, 500}

Ascending(s) == \A i, j \in DOMAIN s : i < j => SeqIndex(s[i]) < SeqIndex(s[j])

\* C1: when the transcription of segment k (k counted by sequence index, from
\* 1) of N fails, the pipeline has terminated with processed outputs on disk
\* for exactly segments 1..k-1 and the caller has received a single error that
\* references segment k.
C1_TranscriptionFailureOutcome ==
  \A r \in Reqs : \A n \in DOMAIN failures[r] :
    failures[r][n].stage \in TranscribeStages =>
      LET f == failures[r][n].file
          k == SeqIndex(f) + 1
      IN /\ pc[r] \in Terminal
         /\ \A j \in 1..Len(segmentFiles[r]) : OutputOnDisk(r, RawName(j - 1)) <=> j < k
         /\ Len(resLog[r]) = 1
         /\ wire[r].status = 500
         /\ Mentions(wire[r].body.error, f)

\* C2: the handler of a request answers at most once: with the list or with
\* an error, never both, and nothing after the success response produces an
\* error response or a second response.
C2_ExactlyOneOutcome ==
  \A r \in Reqs :
    /\ Len(resLog[r]) <= 1
    /\ ~(\E i, j \in DOMAIN resLog[r] : resLog[r][i].status = 200 /\ IsError(resLog[r][j]))

\* C3: whatever order the directory listing has, the segments are processed
\* in ascending sequence index and the list returned is in ascending sequence
\* index.
C3_OrderPreserved ==
  \A r \in Reqs :
    /\ Ascending(segmentFiles[r])
    /\ Ascending(started[r])
    /\ Ascending(processedSegments[r])
    /\ wire[r].status = 200 => Ascending(wire[r].body.processedSegments)

\* C4: with no credential configured, a request fails before any split or
\* render: it creates no scratch directory, never invokes the Splitter and
\* renders no segment.
C4_NoCredentialNoSideEffect ==
  ~apiKey =>
    \A r \in Reqs :
      /\ segmentsDir[r] \notin dirs
      /\ splitCalls[r] = 0
      /\ renders[r] = <<>>

\* C5: in every terminal state of the pipeline (completed, or failed by a
\* split, transcription or render failure) the upload is no longer on disk.
C5_UploadDeleted ==
  \A r \in Reqs :
    (/\ pc[r] \in Terminal
     /\ \/ wire[r].status = 200
        \/ Stages(r) \cap ({"split", "render"} \cup TranscribeStages) # {})
      => inputPath[r] \notin uploads

\* C6: segments are processed strictly one after the other: at most one
\* segment whose upload request was issued has no processed output yet, and
\* when the upload request of a segment is issued every segment before it in
\* the listing was transcribed, rendered with success and pushed.
C6_StrictlySequential ==
  \A r \in Reqs :
    /\ Cardinality({i \in DOMAIN started[r] : ~OutputOnDisk(r, started[r][i])}) <= 1
    /\ \A i \in DOMAIN started[r] :
         /\ started[r][i] = segmentFiles[r][i]
         /\ \A j \in 1..(i - 1) :
              /\ OutputOnDisk(r, started[r][j])
              /\ j <= Len(processedSegments[r])
              /\ processedSegments[r][j] = ProcessedName(started[r][j])
    /\ Len(renders[r]) <= Len(started[r])
    /\ \A i \in DOMAIN renders[r] : renders[r][i][1] = started[r][i]
    /\ Len(processedSegments[r]) <= Len(renders[r])

C6_Witness ==
  \E r \in Reqs :
    /\ Len(started[r]) = 2
    /\ pc[r] = "polling"
    /\ OutputOnDisk(r, started[r][1])

\* C7: a poll answered `completed` ends the loop with the text of that very
\* response as the transcript (the render of the segment starts with it, and
\* no further poll is made); one answered `error` ends it with a failure
\* carrying the service's error; any other status leads to another sleep and
\* poll (or to the failure of that next poll request), however many polls
\* were made before.
C7_PollBranches ==
  \A r \in Reqs :
    pollingResponse[r] # NoPoll =>
      LET resp == pollingResponse[r]
          last == failures[r][Len(failures[r])]
      IN IF resp.status = "completed" THEN
           /\ transcript[r] = resp.text
           /\ renders[r][Len(renders[r])] = <<segmentFiles[r][idx[r]], resp.text>>
           /\ \/ pc[r] = "rendering" /\ call[r].op = "render" /\ call[r].arg[4] = resp.text
              \/ pc[r] = "done" /\ failures[r] # <<>> /\ last.stage = "render"
         ELSE IF resp.status = "error" THEN
           /\ pc[r] = "done"
           /\ failures[r] # <<>> /\ last.stage = "job"
           /\ wire[r] = Err(500, JobErrorMsg(resp.error))
         ELSE
           \/ pc[r] \in {"sleeping", "polling"}
           \/ pc[r] = "done" /\ failures[r] # <<>> /\ last.stage = "poll"

C7_Witness ==
  \E r \in Reqs :
    /\ polls[r] = MaxPolls + 1
    /\ pc[r] = "rendering"
    /\ transcript[r] = "it's"

\* C8: every failure after a valid upload (creating the scratch directory,
\* splitting, listing, transcription, rendering, removing the upload) ends
\* with the client receiving an error response that carries a message.
C8_NoErrorSwallowed ==
  \A r \in Reqs :
    (pc[r] \in Terminal /\ Stages(r) \cap PipelineStages # {}) =>
      /\ wire[r].status = 500
      /\ wire[r].body.error # <<>>

\* C9: a request invokes the Splitter at most once, exactly once when it
\* reaches the split, and after a failed split it is over with an error and
\* nothing further was attempted: no listing, no transcription request, no
\* render.
C9_SplitOnceAndAbort ==
  \A r \in Reqs :
    /\ splitCalls[r] <= 1
    /\ (pc[r] \notin ({"absent", "idle"} \cup Terminal) \/ wire[r].status \in {200, 500})
         => splitCalls[r] = 1
    /\ "split" \in Stages(r) =>
         /\ pc[r] = "done"
         /\ splitCalls[r] = 1
         /\ resLog[r] = <<Err(500, EngineErrorMsg)>>
         /\ listCalls[r] = 0
         /\ segmentFiles[r] = <<>>
         /\ started[r] = <<>>
         /\ renders[r] = <<>>
         /\ call[r] = NoCall

C9_Witness ==
  \E r \in Reqs : "split" \in Stages(r) /\ pc[r] = "done" /\ splitCalls[r] = 1

\* C10: a POST request without a video part, or whose upload failed to
\* parse, ends with the 400 response and nothing else: no scratch directory,
\* no Splitter invocation, no transcription request, no render.
C10_RejectedInputNoSideEffect ==
  \A r \in Reqs :
    (req[r].method = "POST" /\ (req[r].err \/ ~req[r].hasVideo)) =>
      /\ pc[r] = "done"
      /\ resLog[r] = <<Err(400, <<"Failed to parse upload or no video provided.">>)>>
      /\ segmentsDir[r] = NoDir
      /\ DirFiles(files, segmentsDir[r]) = {}
      /\ splitCalls[r] = 0
      /\ listCalls[r] = 0
      /\ started[r] = <<>>
      /\ renders[r] = <<>>
      /\ call[r] = NoCall

C10_Witness ==
  \E r \in Reqs : req[r].method = "POST" /\ ~req[r].hasVideo /\ pc[r] = "done"

\* the raw segment files of request r's scratch directory
RawOnDisk(r) == {f \in DirFiles(files, segmentsDir[r]) : ~IsProcessed(f)}

\* C11: when every external call succeeded, the request completes with the
\* list of the N segment files' names, each prefixed with "processed_", in
\* the order of the sequence index: processed_segment_000.mp4 first.
C11_CompleteOrderedList ==
  \A r \in Reqs :
    wire[r].status = 200 =>
      LET N == Cardinality(RawOnDisk(r))
      IN wire[r].body.processedSegments = [i \in 1..N |-> ProcessedName(RawName(i - 1))]

\* C12: after the pipeline terminated, no raw segment file whose processed
\* output was produced is still on disk.
C12_RawSegmentsDeleted ==
  \A r \in Reqs :
    pc[r] \in Terminal =>
      \A f \in RawOnDisk(r) : ~OutputOnDisk(r, f)

\* what a reader that takes a backslash as escaping the next character and a
\* quote as the end makes of the text after an opening quote
RECURSIVE ReadQuoted(_)
ReadQuoted(s) ==
  IF s = <<>> THEN [value |-> <<>>, rest |-> <<>>, closed |-> FALSE]
  ELSE IF Head(s) = "'" THEN [value |-> <<>>, rest |-> Tail(s), closed |-> TRUE]
  ELSE IF Head(s) = "\\" /\ Len(s) >= 2
       THEN LET r == ReadQuoted(Tail(Tail(s))) IN [r EXCEPT !.value = <<s[2]>> \o @]
  ELSE LET r == ReadQuoted(Tail(s)) IN [r EXCEPT !.value = <<Head(s)>> \o @]

\* the same reader on an option value that is not quoted: a colon ends it
RECURSIVE ReadOption(_)
ReadOption(s) ==
  IF s = <<>> THEN [value |-> <<>>, rest |-> <<>>]
  ELSE IF Head(s) \in {":", "'"} THEN [value |-> <<>>, rest |-> s]
  ELSE IF Head(s) = "\\" /\ Len(s) >= 2
       THEN LET r == ReadOption(Tail(Tail(s))) IN [r EXCEPT !.value = <<s[2]>> \o @]
  ELSE LET r == ReadOption(Tail(s)) IN [r EXCEPT !.value = <<Head(s)>> \o @]

HasSpecial(t) == \E i \in 1..Len(t) : t[i] \in {"'", "\\", ":"}

\* C13: for every caption with a quote, a backslash or a colon, the text placed
\* in the drawtext directive reads back as the caption, the directive ends where
\* it was meant to end and what follows the caption is left as written.
C13_EscapingRoundTrips ==
  (filterGraph # NoGraph /\ HasSpecial(caption)) =>
    LET drawtext == filterGraph.nodes[2]
    IN IF filterGraph.builder = "template"
       THEN LET placed == SubSeq(drawtext.options, Len(DrawtextPre) + 1, Len(drawtext.options))
                r == ReadQuoted(placed)
            IN r.closed /\ r.value = caption /\ r.rest = Tail(DrawtextPost)
       ELSE LET r == ReadOption(drawtext.options[2][2])
            IN r.value = caption /\ r.rest = <<>>

IsRawInput(x) == x \in {"0:v", "1:v", "[0:v]", "[1:v]"}

LastStage(r) == IF failures[r] = <<>> THEN "" ELSE failures[r][Len(failures[r])].stage

\* C16: the service operations of one getTranscript call are the upload of the
\* segment, the job creation with the locator the upload returned, then sleep
\* and poll in turns, every poll with the identifier the creation returned and
\* after a sleep of 5 seconds; a failed upload leaves the upload alone in the
\* call, a failed creation leaves upload and creation, a failed poll is the
\* last operation of the call.
C16_ServiceOrder ==
  \A r \in Reqs :
    LET L == svcLog[r]
    IN /\ \A i \in 1..Len(L) :
            IF i = 1 THEN
              L[i].op = "upload" /\ L[i].arg = <<segmentsDir[r], LoopFiles(r)[idx[r]]>>
            ELSE IF i = 2 THEN
              L[i].op = "create" /\ L[i].arg = audioUrl[r] /\ audioUrl[r] \in Urls
            ELSE IF i % 2 = 1 THEN
              L[i].op = "sleep" /\ L[i].arg = 5000
            ELSE
              L[i].op = "poll" /\ L[i].arg = transcriptId[r] /\ transcriptId[r] \in Ids
       /\ pc[r] = "uploading" => Len(L) = 1
       /\ pc[r] = "creating" => Len(L) = 2
       /\ pc[r] = "sleeping" => Len(L) = 3 + 2 * polls[r]
       /\ pc[r] = "polling" => Len(L) = 4 + 2 * polls[r]
       /\ LastStage(r) = "upload" => Len(L) = 1
       /\ LastStage(r) = "create" => Len(L) = 2
       /\ LastStage(r) = "poll" => Len(L) = 4 + 2 * polls[r]

C16_Witness ==
  \E r \in Reqs :
    /\ pc[r] = "done"
    /\ LastStage(r) = "poll"
    /\ Len(svcLog[r]) >= 6

\* C17: while a segment renders, the transcription job of that very segment
\* has answered `completed` and the render was given the text of that answer;
\* a name is in processedSegments only when the render of its segment has
\* ended with success (its output is on disk), never while the render is
\* under way and never after it failed.
C17_RenderAfterTranscript ==
  \A r \in Reqs :
    /\ pc[r] = "rendering" =>
         LET file == LoopFiles(r)[idx[r]]
         IN /\ pollingResponse[r].status = "completed"
            /\ svcLog[r][1].op = "upload" /\ svcLog[r][1].arg = <<segmentsDir[r], file>>
            /\ call[r].op = "render"
            /\ call[r].arg = <<segmentsDir[r], file, ProcessedName(file), pollingResponse[r].text>>
            /\ renders[r][Len(renders[r])] = <<file, pollingResponse[r].text>>
    /\ \A j \in DOMAIN processedSegments[r] :
         /\ j <= Len(renders[r])
         /\ processedSegments[r][j] = ProcessedName(renders[r][j][1])
         /\ OutputOnDisk(r, renders[r][j][1])
    /\ (pc[r] = "rendering" \/ LastStage(r) = "render") =>
         /\ Len(processedSegments[r]) = Len(renders[r]) - 1
         /\ ProcessedName(LoopFiles(r)[idx[r]]) \notin Range(processedSegments[r])

C17_Witness ==
  \E r \in Reqs :
    /\ pc[r] = "rendering"
    /\ Len(processedSegments[r]) = 1

\* C18: when the render of the k-th segment of the loop fails, the request is
\* over with that failure as its response, the segments after the k-th were
\* neither sent to the service nor rendered, and the outputs of the k-1
\* segments before it are still on disk (and are all that was pushed).
C18_RenderFailureAborts ==
  \A r \in Reqs :
    LastStage(r) = "render" =>
      LET k == idx[r]
      IN /\ pc[r] = "done"
         /\ call[r] = NoCall
         /\ k \in DOMAIN LoopFiles(r)
         /\ failures[r] = <<Failure("render", LoopFiles(r)[k])>>
         /\ resLog[r] = <<Err(500, EngineErrorMsg)>>
         /\ wire[r] = Err(500, EngineErrorMsg)
         /\ started[r] = SubSeq(LoopFiles(r), 1, k)
         /\ [i \in 1..Len(renders[r]) |-> renders[r][i][1]] = SubSeq(LoopFiles(r), 1, k)
         /\ processedSegments[r] = [j \in 1..(k - 1) |-> ProcessedName(LoopFiles(r)[j])]
         /\ \A j \in 1..(k - 1) : OutputOnDisk(r, LoopFiles(r)[j])

C18_Witness ==
  \E r \in Reqs :
    /\ LastStage(r) = "render"
    /\ idx[r] = 1
    /\ Len(LoopFiles(r)) = 2

NoDuplicates(s) == \A i, j \in DOMAIN s : s[i] = s[j] => i = j

\* C19: in one request the directory is listed once, before any render; no
\* file is sent to the service twice or rendered twice, and no processed_*
\* file is ever sent to the service or rendered, also once such files lie in
\* the directory.
C19_NoReprocessing ==
  \A r \in Reqs :
    LET rendered == [i \in 1..Len(renders[r]) |-> renders[r][i][1]]
    IN /\ listCalls[r] <= 1
       /\ started[r] # <<>> => listCalls[r] = 1
       /\ NoDuplicates(started[r])
       /\ NoDuplicates(rendered)
       /\ \A f \in Range(started[r]) \cup Range(rendered) : ~IsProcessed(f)
       /\ Len(started[r]) <= Cardinality(RawOnDisk(r))

C19_Witness ==
  \E r \in Reqs :
    /\ wire[r].status = 200
    /\ Len(renders[r]) = 2
    /\ \E f \in DirFiles(files, segmentsDir[r]) : IsProcessed(f) /\ EndsWithMp4(f)

\* C15: a request has no way out but its end: as long as it has not ended one
\* of its steps can be taken (the collaborators answer), and when it has ended
\* it has sent its response.
C15_TerminatesWithResponse ==
  \A r \in Reqs :
    /\ pc[r] \notin Terminal \cup {"absent"} => ENABLED Next
    /\ pc[r] \in Terminal => wire[r] # NoResp

\* the requests that got past validation and named their scratch directory
PastValidation == {r \in Reqs : segmentsDir[r] # NoDir}

\* C20: requests handled by the same process each work in a scratch directory
\* of their own, also when they read the same clock value: two requests past
\* validation never name the same directory, and every engine and service
\* call of a request names that request's directory.
C20_OwnScratchDirectory ==
  /\ \A r, s \in PastValidation : r # s => segmentsDir[r] # segmentsDir[s]
  /\ \A r \in Reqs :
       /\ call[r].op \in {"upload", "render"} => call[r].arg[1] = segmentsDir[r]
       /\ call[r].op = "split" => call[r].arg[2] = segmentsDir[r]

====
